---- MODULE Spec2Model ----
(***************************************************************************)
(* Model of the interval timer of igor-timer (src/hooks/useTimer.ts) as    *)
(* the App drives it (src/App.tsx), and of its audio-device manager, the   *)
(* AudioService singleton with the resume timeout and the resume guard;    *)
(* of the earlier AudioService of src/services/audioService.ts; of the     *)
(* timer wired to the service through useAudio(); and of the persistence   *)
(* of the tally counter (setsStorage).                                     *)
(*                                                                         *)
(* One action is one handler run to quiescence: the handler body, the      *)
(* re-render it schedules and the effects of that render (the ref syncs of *)
(* useTimer.ts:46-52 and the totalRounds effect of useTimer.ts:201-208).   *)
(* At quiescence stateRef.current = state and profileRef.current =         *)
(* profile, so one variable stands for each pair.                          *)
(***************************************************************************)
EXTENDS Integers, Sequences, FiniteSets, TLC

VARIABLES
    state,        \* TimerState: stateRef.current / the React state
    profile,      \* TimerProfile: profile / profileRef.current
    intervalRef,  \* id held by intervalRef.current, NULL when none
    intervals,    \* ids of the window's live setInterval schedules
    mounted,      \* the component owning the hook is mounted
    lastOp,       \* history: the operation that produced this state
    prev,         \* history: TimerState before the last operation
    lastCues,     \* history: cues requested by the last operation
    clean,        \* history: a fresh start happened and nothing but ticks since
    workDone,     \* history: work phases counted down since that fresh start
    restDone,     \* history: rest phases counted down since that fresh start
    nTicks,       \* history: ticks fired since that fresh start
    pauseSnap,    \* history: TimerState before the pause() that is in effect
    context,      \* AudioService.context: id of the AudioContext, NULL if none
    devState,     \* AudioContext.state of every AudioContext ever created
    unlockPromise,              \* AudioService.unlockPromise: a resume, or NULL
    resumeInProgress,           \* AudioService.resumeInProgress
    unlockListenersAttached,    \* AudioService.unlockListenersAttached
    visibilityListenerAttached, \* AudioService.visibilityListenerAttached
    ops,          \* the resume() calls some callback is waiting for
    abandoned,    \* devices with a resume() unsettled after its timer fired
    recorder,     \* sessionRecorder: "records", or "fails" on every call
    aLast,        \* history: what the last audio step did
    aPrev,        \* history: the step before the last was an ensureRunning()
                  \* that issued the only resume() of a suspended device
    aFault,       \* history: the step before the last was a synthesis fault
                  \* that left the service without a device
    sets,         \* the record under KEY in the "sets" object store
    pLast         \* history: the last persistence call and how it ended

timerVars == <<state, profile, intervalRef, intervals, mounted, lastOp, prev,
               lastCues, clean, workDone, restDone, nTicks, pauseSnap>>

audioVars == <<context, devState, unlockPromise, resumeInProgress,
               unlockListenersAttached, visibilityListenerAttached, ops,
               abandoned, recorder, aLast, aPrev, aFault>>

setsVars == <<sets, pLast>>

vars == <<timerVars, audioVars, setsVars>>

----------------------------------------------------------------------------
(* Bounds *)

MaxDur == 1
MaxRounds == 2
MaxIntervals == 2

MaxDevices == 3   \* AudioContexts alive or closed-but-referenced at once
MaxOps == 2       \* resume() calls outstanding at once
MaxWaiters == 2   \* callers awaiting one unlockPromise

MaxCount == 3     \* tally counts saved

NULL == 0
NoSnap == [none |-> TRUE]

Devices == 1..MaxDevices
OpIds == 1..MaxOps

\* A free slot of ops.
NoOp == [live |-> FALSE, dev |-> NULL, kind |-> "none", waiters |-> <<>>,
         timer |-> FALSE]

\* The history record of a step that did nothing observable.
NoLog == [op |-> "none", kind |-> "none", pre |-> "absent", busy |-> FALSE,
          issued |-> FALSE, outcome |-> "none", tones |-> 0, faults |-> 0,
          closed |-> 0, retOk |-> TRUE, created |-> "none", thrown |-> FALSE,
          played |-> 0, silent |-> 0, stray |-> FALSE, retClosed |-> FALSE,
          report |-> [none |-> TRUE]]

\* The AudioService singleton as constructed: no device, nothing pending.
AudioInit ==
    /\ context = NULL
    /\ devState = [d \in Devices |-> "absent"]
    /\ unlockPromise = NULL
    /\ resumeInProgress = FALSE
    /\ unlockListenersAttached = FALSE
    /\ visibilityListenerAttached = FALSE
    /\ ops = [i \in OpIds |-> NoOp]
    /\ abandoned = {}
    /\ aLast = NoLog
    /\ aPrev = FALSE
    /\ aFault = FALSE

\* The object store without a record under KEY.
NoData == [none |-> TRUE]

\* The history record before any persistence call.
NoSetsLog ==
    [op |-> "none", fault |-> "none", value |-> 0, rejected |-> FALSE]

\* An empty store no call has touched.
SetsInit ==
    /\ sets = NoData
    /\ pLast = NoSetsLog

Phase == {"idle", "prep", "work", "rest", "done"}

\* Profiles the settings surface can supply: non-negative durations, rounds >= 1.
Profiles ==
    [workTime : 0..MaxDur, restTime : 0..MaxDur, rounds : 1..MaxRounds,
     cycles : {1}, prepTime : 0..MaxDur]

\* The profile App constructs from PRESETS[0] ("30sec").
AppProfile ==
    [workTime |-> 30, restTime |-> 5, rounds |-> 6, cycles |-> 1, prepTime |-> 5]

DEFAULT_STATE ==
    [isRunning |-> FALSE, isPaused |-> FALSE, phase |-> "idle", timeLeft |-> 0,
     currentRound |-> 1, totalRounds |-> 6, totalElapsed |-> 0]

\* useState initialiser of useTimer.
initialState(p) == [DEFAULT_STATE EXCEPT !.totalRounds = p.rounds]

calculateTotalTime(p) ==
    ((p.workTime + p.restTime) * p.rounds * p.cycles) + p.prepTime

----------------------------------------------------------------------------
(* Pure parts of the handlers *)

\* Mutant: the profile effect without its guard on isRunning and isPaused.
syncTotalRoundsAlways(s, p) == [s EXCEPT !.totalRounds = p.rounds]

\* Effect "update state when profile changes (only when idle)".
syncTotalRounds(s, p) ==
    IF ~s.isRunning /\ ~s.isPaused
    THEN [s EXCEPT !.totalRounds = p.rounds]
    ELSE s

\* Mutant: reset() that forgets to zero the elapsed-tick count.
resetStateKeepsElapsed(s, p) ==
    [DEFAULT_STATE EXCEPT !.totalRounds = p.rounds,
                          !.totalElapsed = s.totalElapsed]

resetState(s, p) == [DEFAULT_STATE EXCEPT !.totalRounds = p.rounds]

\* Mutant: a countdown beep also on the tick that reaches zero.
countdownCueAtZero(newTimeLeft) ==
    IF newTimeLeft <= 3 /\ newTimeLeft >= 0 THEN <<"countdown">> ELSE <<>>

\* Countdown beeps.
countdownCue(newTimeLeft) ==
    IF newTimeLeft <= 3 /\ newTimeLeft > 0 THEN <<"countdown">> ELSE <<>>

\* Mutant: the last-round test on the round count stored at start().
isLastRoundStored(s, p) == s.currentRound >= s.totalRounds

\* Mutant: the last-round test off by one (one round too many).
isLastRoundOffByOne(s, p) == s.currentRound > p.rounds

\* "Check if this was the last round".
isLastRound(s, p) == s.currentRound >= p.rounds

\* Mutant: the first work phase starts one second short.
prepToWorkShort(s, p) ==
    [s EXCEPT !.phase = "work",
              !.timeLeft = p.workTime - 1,
              !.totalElapsed = s.totalElapsed + 1]

prepToWork(s, p) ==
    [s EXCEPT !.phase = "work",
              !.timeLeft = p.workTime,
              !.totalElapsed = s.totalElapsed + 1]

workToDone(s) ==
    [s EXCEPT !.phase = "done",
              !.timeLeft = 0,
              !.isRunning = FALSE,
              !.totalElapsed = s.totalElapsed + 1]

\* Mutant: a rest phase one second too long.
workToRestLong(s, p) ==
    [s EXCEPT !.phase = "rest",
              !.timeLeft = p.restTime + 1,
              !.totalElapsed = s.totalElapsed + 1]

workToRest(s, p) ==
    [s EXCEPT !.phase = "rest",
              !.timeLeft = p.restTime,
              !.totalElapsed = s.totalElapsed + 1]

restToWork(s, p) ==
    [s EXCEPT !.phase = "work",
              !.timeLeft = p.workTime,
              !.currentRound = s.currentRound + 1,
              !.totalElapsed = s.totalElapsed + 1]

normalTick(s, newTimeLeft) ==
    [s EXCEPT !.timeLeft = newTimeLeft,
              !.totalElapsed = s.totalElapsed + 1]

\* Mutant: tick() without the guard on the running flag.
tickResultNoGuard(s, p) ==
    LET newTimeLeft == s.timeLeft - 1
        countdown == countdownCue(newTimeLeft)
    IN
    IF newTimeLeft <= 0
    THEN
        IF s.phase = "prep"
        THEN [state |-> prepToWork(s, p),
              cues |-> countdown \o <<"start">>, clear |-> FALSE]
        ELSE IF s.phase = "work"
        THEN
            IF isLastRound(s, p)
            THEN [state |-> workToDone(s),
                  cues |-> countdown \o <<"end", "finish">>, clear |-> TRUE]
            ELSE [state |-> workToRest(s, p),
                  cues |-> countdown \o <<"end">>, clear |-> FALSE]
        ELSE IF s.phase = "rest"
        THEN [state |-> restToWork(s, p),
              cues |-> countdown \o <<"start">>, clear |-> FALSE]
        ELSE [state |-> s, cues |-> countdown, clear |-> FALSE]
    ELSE [state |-> normalTick(s, newTimeLeft),
          cues |-> countdown, clear |-> FALSE]

\* tick(): the new TimerState, the cues it requests in order, and whether it
\* calls clearTimer().
tickResult(s, p) ==
    LET newTimeLeft == s.timeLeft - 1
        countdown == countdownCue(newTimeLeft)
    IN
    IF ~s.isRunning
    THEN [state |-> s, cues |-> <<>>, clear |-> FALSE]
    ELSE IF newTimeLeft <= 0
    THEN
        IF s.phase = "prep"
        THEN [state |-> prepToWork(s, p),
              cues |-> countdown \o <<"start">>, clear |-> FALSE]
        ELSE IF s.phase = "work"
        THEN
            IF isLastRound(s, p)
            THEN [state |-> workToDone(s),
                  cues |-> countdown \o <<"end", "finish">>, clear |-> TRUE]
            ELSE [state |-> workToRest(s, p),
                  cues |-> countdown \o <<"end">>, clear |-> FALSE]
        ELSE IF s.phase = "rest"
        THEN [state |-> restToWork(s, p),
              cues |-> countdown \o <<"start">>, clear |-> FALSE]
        ELSE [state |-> s, cues |-> countdown, clear |-> FALSE]
    ELSE [state |-> normalTick(s, newTimeLeft),
          cues |-> countdown, clear |-> FALSE]

\* Mutant: a fresh start that skips the preparation duration.
startStateSkipsPrep(s, p) ==
    IF s.isPaused
    THEN [s EXCEPT !.isRunning = TRUE, !.isPaused = FALSE]
    ELSE [isRunning |-> TRUE, isPaused |-> FALSE, phase |-> "prep",
          timeLeft |-> p.workTime, currentRound |-> 1,
          totalRounds |-> p.rounds, totalElapsed |-> 0]

\* Mutant: a resume that restarts the current phase from its full duration.
startStateRestartsPhase(s, p) ==
    IF s.isPaused
    THEN [s EXCEPT !.isRunning = TRUE, !.isPaused = FALSE,
                   !.timeLeft = IF s.phase = "work" THEN p.workTime
                                ELSE IF s.phase = "rest" THEN p.restTime
                                ELSE IF s.phase = "prep" THEN p.prepTime
                                ELSE s.timeLeft]
    ELSE [isRunning |-> TRUE, isPaused |-> FALSE, phase |-> "prep",
          timeLeft |-> p.prepTime, currentRound |-> 1,
          totalRounds |-> p.rounds, totalElapsed |-> 0]

startState(s, p) ==
    IF s.isPaused
    THEN [s EXCEPT !.isRunning = TRUE, !.isPaused = FALSE]
    ELSE [isRunning |-> TRUE, isPaused |-> FALSE, phase |-> "prep",
          timeLeft |-> p.prepTime, currentRound |-> 1,
          totalRounds |-> p.rounds, totalElapsed |-> 0]

startCues(s) == IF s.isPaused THEN <<>> ELSE <<"start">>

\* Mutant: pause() that leaves the running flag set.
pauseStateKeepsRunning(s) == [s EXCEPT !.isPaused = TRUE]

pauseState(s) == [s EXCEPT !.isRunning = FALSE, !.isPaused = TRUE]

----------------------------------------------------------------------------
(* Interval bookkeeping *)

\* Mutant: clearTimer() that forgets to cancel the schedule.
clearTimerKeepsSchedule(ref, live) == live

\* Mutant: clearTimer() that cancels nothing when a schedule is referenced.
clearTimerOnlyWhenNull(ref, live) == IF ref = NULL THEN {} ELSE live

\* clearTimer(): the live schedules left once intervalRef.current is cleared.
clearTimer(ref, live) == IF ref # NULL THEN live \ {ref} ELSE live

\* window.setInterval: an id no live schedule has.
freshId(live) == CHOOSE i \in 1..MaxIntervals : i \notin live

----------------------------------------------------------------------------
(* History bookkeeping shared by the handlers *)

\* Nothing is being counted: no fresh start yet, or the run was interrupted.
noRun ==
    /\ clean' = FALSE
    /\ workDone' = 0
    /\ restDone' = 0
    /\ nTicks' = 0

\* start(), reached directly (op = "start") or through toggle(): what it
\* does to the hook.
startTimer(op) ==
    LET live == clearTimer(intervalRef, intervals)
        id == freshId(live)
    IN
    /\ mounted
    /\ live # 1..MaxIntervals
    /\ state' = syncTotalRounds(startState(state, profile), profile)
    /\ intervals' = live \cup {id}
    /\ intervalRef' = id
    /\ lastOp' = op
    /\ prev' = state
    /\ lastCues' = startCues(state)
    /\ clean' = ~state.isPaused
    /\ workDone' = 0
    /\ restDone' = 0
    /\ nTicks' = 0
    /\ pauseSnap' = IF state.isPaused THEN pauseSnap ELSE NoSnap
    /\ UNCHANGED <<profile, mounted>>

\* start() with the audio service left aside.
startBody(op) ==
    /\ startTimer(op)
    /\ UNCHANGED <<audioVars, setsVars>>

\* pause(), reached directly (op = "pause") or through toggle().
pauseTimer(op) ==
    /\ mounted
    /\ state' = syncTotalRounds(pauseState(state), profile)
    /\ intervals' = clearTimer(intervalRef, intervals)
    /\ intervalRef' = NULL
    /\ lastOp' = op
    /\ prev' = state
    /\ lastCues' = <<>>
    /\ noRun
    /\ pauseSnap' = IF state.isPaused THEN pauseSnap ELSE state
    /\ UNCHANGED <<profile, mounted>>

pauseBody(op) ==
    /\ pauseTimer(op)
    /\ UNCHANGED <<audioVars, setsVars>>

\* tick() invoked once, by a live schedule (op = "tick") or by a callback
\* that was already due when its schedule was cleared (op = "lateTick").
tickTimer(op) ==
    LET r == tickResult(state, profile) IN
    /\ state' = syncTotalRounds(r.state, profile)
    /\ intervals' = IF r.clear THEN clearTimer(intervalRef, intervals)
                               ELSE intervals
    /\ intervalRef' = IF r.clear THEN NULL ELSE intervalRef
    /\ lastOp' = op
    /\ prev' = state
    /\ lastCues' = r.cues
    /\ clean' = clean
    /\ workDone' = IF clean /\ state.phase = "work" /\ r.state.phase # "work"
                   THEN workDone + 1 ELSE workDone
    /\ restDone' = IF clean /\ state.phase = "rest" /\ r.state.phase # "rest"
                   THEN restDone + 1 ELSE restDone
    /\ nTicks' = IF clean /\ state.isRunning THEN nTicks + 1 ELSE nTicks
    /\ pauseSnap' = IF r.state = state THEN pauseSnap ELSE NoSnap
    /\ UNCHANGED <<profile, mounted>>

\* tick() with the audio service left aside.
tickBody(op) ==
    /\ tickTimer(op)
    /\ UNCHANGED <<audioVars, setsVars>>

----------------------------------------------------------------------------
(* Operations *)

start == startBody("start")

pause == pauseBody("pause")

\* Mutant: toggle() that pauses whatever is not paused.
toggleTestsPaused ==
    IF ~state.isPaused THEN pauseBody("toggle") ELSE startBody("toggle")

toggle ==
    IF state.isRunning THEN pauseBody("toggle") ELSE startBody("toggle")

resetTimer ==
    /\ mounted
    /\ state' = syncTotalRounds(resetState(state, profile), profile)
    /\ intervals' = clearTimer(intervalRef, intervals)
    /\ intervalRef' = NULL
    /\ lastOp' = "reset"
    /\ prev' = state
    /\ lastCues' = <<>>
    /\ noRun
    /\ pauseSnap' = NoSnap
    /\ UNCHANGED <<profile, mounted>>

reset ==
    /\ resetTimer
    /\ UNCHANGED <<audioVars, setsVars>>

\* A live schedule fires.
tick ==
    /\ mounted
    /\ intervals # {}
    /\ tickBody("tick")

\* A tick that fires although the tick source has been cleared.
lateTick ==
    /\ mounted
    /\ intervalRef = NULL
    /\ tickBody("lateTick")

\* The settings surface replaces the profile (handlePresetSelect,
\* handleSettingsSave); the render runs the totalRounds effect.
setProfile ==
    \E p \in Profiles :
        /\ mounted
        /\ profile' = p
        /\ state' = syncTotalRounds(state, p)
        /\ lastOp' = "setProfile"
        /\ prev' = state
        /\ lastCues' = <<>>
        /\ clean' = (clean /\ p = profile)
        /\ workDone' = IF clean /\ p = profile THEN workDone ELSE 0
        /\ restDone' = IF clean /\ p = profile THEN restDone ELSE 0
        /\ nTicks' = IF clean /\ p = profile THEN nTicks ELSE 0
        /\ pauseSnap' = IF state.isPaused THEN pauseSnap ELSE NoSnap
        /\ UNCHANGED <<intervalRef, intervals, mounted>>
        /\ UNCHANGED <<audioVars, setsVars>>

\* Cleanup on unmount.
unmount ==
    /\ mounted
    /\ mounted' = FALSE
    /\ intervals' = clearTimer(intervalRef, intervals)
    /\ intervalRef' = NULL
    /\ lastOp' = "unmount"
    /\ prev' = state
    /\ lastCues' = <<>>
    /\ UNCHANGED <<state, profile, clean, workDone, restDone, nTicks,
                   pauseSnap>>
    /\ UNCHANGED <<audioVars, setsVars>>

----------------------------------------------------------------------------
(* Specifications *)

\* The hook as mounted with profile p.
TimerInit(p) ==
    /\ profile = p
    /\ state = initialState(p)
    /\ intervalRef = NULL
    /\ intervals = {}
    /\ mounted = TRUE
    /\ lastOp = "init"
    /\ prev = initialState(p)
    /\ lastCues = <<>>
    /\ clean = FALSE
    /\ workDone = 0
    /\ restDone = 0
    /\ nTicks = 0
    /\ pauseSnap = NoSnap

\* The hook and the service as constructed, the recorder recording.
InitWith(p) ==
    /\ TimerInit(p)
    /\ AudioInit
    /\ recorder = "records"
    /\ SetsInit

Init == \E p \in Profiles : InitWith(p)

Next ==
    \/ start
    \/ pause
    \/ toggle
    \/ reset
    \/ tick
    \/ lateTick
    \/ setProfile
    \/ unmount

Spec == Init /\ [][Next]_vars

\* The App as constructed, its profile left at the initial preset.
InitApp == InitWith(AppProfile)

NextApp ==
    \/ start
    \/ pause
    \/ toggle
    \/ reset
    \/ tick
    \/ lateTick
    \/ unmount

SpecApp == InitApp /\ [][NextApp]_vars

\* Uninterrupted runs: the timer is started from rest, its schedule fires,
\* and the profile is replaced between runs only.
NextRun ==
    \/ (~state.isRunning /\ ~state.isPaused /\ start)
    \/ tick
    \/ (~state.isRunning /\ ~state.isPaused /\ setProfile)

\* A live setInterval schedule keeps firing.
SpecRun == Init /\ [][NextRun]_vars /\ WF_vars(tick)

\* The timer as the App drives it: the hook's start() and pause() are
\* reached through toggle() only.
NextUser ==
    \/ toggle
    \/ reset
    \/ tick
    \/ lateTick
    \/ setProfile

SpecUser == Init /\ [][NextUser]_vars

TypeOK ==
    /\ state.phase \in Phase
    /\ state.isRunning \in BOOLEAN
    /\ state.isPaused \in BOOLEAN
    /\ intervalRef \in 0..MaxIntervals
    /\ intervals \subseteq 1..MaxIntervals

----------------------------------------------------------------------------
(* The audio-device manager: class AudioService.                           *)
(*                                                                         *)
(* A call of the service runs in one step up to its first await (or to its *)
(* end); every async method has at most one await, so the rest of the call *)
(* runs in the step that settles the promise it awaits, together with the  *)
(* other callbacks chained on that promise, in the order they were         *)
(* registered.  A record a carries the fields of the service through a     *)
(* step, with counters of what the step did.                               *)

AudioStates == {"absent", "suspended", "running", "interrupted", "closed"}

\* Mutant: a running device counts as one that needs a resume.
SuspendedOrRunning == {"suspended", "interrupted", "running"}

Suspended == {"suspended", "interrupted"}

OpKinds == {"gesture", "visibility", "ensureRunning", "playBeep", "testSound"}

\* Messages resume() rejects with: the iOS device failure, and any other.
ResumeErrors == {"Failed to start the audio device", "NotAllowedError"}

\* The message of the error withTimeout() rejects with.
TimeoutError == "Resume timeout"

Outcomes == {"resolved", TimeoutError} \cup ResumeErrors

\* Mutant: every failed resume counts as a device failure.
includesDeviceFailureAlways(errorMsg) == TRUE

\* errorMsg.includes("Failed to start") || errorMsg.includes("audio device")
includesDeviceFailure(errorMsg) ==
    errorMsg \in {"Failed to start the audio device"}

\* The fields of the service at the start of a step.
svc ==
    [context |-> context, devState |-> devState,
     unlockPromise |-> unlockPromise, resumeInProgress |-> resumeInProgress,
     unlockListenersAttached |-> unlockListenersAttached,
     visibilityListenerAttached |-> visibilityListenerAttached,
     abandoned |-> abandoned, recorder |-> recorder,
     tones |-> 0, faults |-> 0, closed |-> 0, retOk |-> TRUE,
     created |-> "none", thrown |-> FALSE, played |-> 0, silent |-> 0,
     returned |-> {}, overflow |-> FALSE]

\* recordAudioEvent(): hand one event to the recorder.  Nothing catches what
\* recordStateChange() throws, so a failing recorder ends the caller there.
recordAudioEvent(a) ==
    IF a.recorder = "fails" THEN [a EXCEPT !.thrown = TRUE] ELSE a

\* new AudioContext(): the next unused identity.
freshDevice(a) ==
    CHOOSE d \in Devices :
        /\ a.devState[d] = "absent"
        /\ \A e \in Devices : a.devState[e] = "absent" => d <= e

\* Mutant: getContext() that keeps a closed device.
getContextKeepsClosed(a) ==
    IF a.context = NULL
    THEN
        IF \E d \in Devices : a.devState[d] = "absent"
        THEN [a EXCEPT !.context = freshDevice(a),
                       !.devState[freshDevice(a)] = "suspended",
                       !.created = "absent",
                       !.unlockListenersAttached = TRUE,
                       !.visibilityListenerAttached = TRUE]
        ELSE [a EXCEPT !.overflow = TRUE]
    ELSE a

\* getContext(): the device, created with its listeners if there is none or
\* it is closed.  A new AudioContext starts suspended.
getContext(a) ==
    IF a.context = NULL \/ a.devState[a.context] = "closed"
    THEN
        IF \E d \in Devices : a.devState[d] = "absent"
        THEN
            LET b == recordAudioEvent(
                        [a EXCEPT !.context = freshDevice(a),
                                  !.devState[freshDevice(a)] = "suspended",
                                  !.created = IF a.context = NULL
                                              THEN "absent" ELSE "closed"])
            IN IF b.thrown
               THEN b
               ELSE [b EXCEPT !.unlockListenersAttached = TRUE,
                              !.visibilityListenerAttached = TRUE]
        ELSE [a EXCEPT !.overflow = TRUE]
    ELSE a

\* Mutant: destroyContext() that leaves the device in place.
destroyContextKeeps(a) == a

\* destroyContext(): close the device and forget it, the promise and the guard.
destroyContext(a) ==
    IF a.context # NULL
    THEN
        LET b == recordAudioEvent(a)
        IN IF b.thrown
           THEN b
           ELSE [b EXCEPT !.devState[a.context] = "closed",
                          !.context = NULL,
                          !.unlockPromise = NULL,
                          !.resumeInProgress = FALSE,
                          !.closed = @ + 1]
    ELSE a

\* Mutant: doPlayBeep() that never synthesizes.
doPlayBeepSilent(a, ctx, synthOk) == a

\* Mutant: doPlayBeep() that lets a synthesis fault out to its caller.
doPlayBeepThrows(a, ctx, synthOk) ==
    IF a.devState[ctx] # "running"
    THEN a
    ELSE IF synthOk
    THEN [a EXCEPT !.tones = @ + 1]
    ELSE [a EXCEPT !.faults = @ + 1, !.thrown = TRUE]

\* doPlayBeep(): synthesize one tone on a running device; a fault during
\* synthesis destroys the device.
doPlayBeep(a, ctx, synthOk) ==
    IF a.devState[ctx] # "running"
    THEN recordAudioEvent(a)
    ELSE IF synthOk
    THEN recordAudioEvent([a EXCEPT !.tones = @ + 1])
    ELSE
        LET b == recordAudioEvent([a EXCEPT !.faults = @ + 1])
        IN IF b.thrown THEN b ELSE destroyContext(b)

\* Mutant: withTimeout() that arms no timer.
withTimeoutNoTimer(op) == op

\* withTimeout(): race the promise against a timer of RESUME_TIMEOUT_MS.
withTimeout(op) == [op EXCEPT !.timer = TRUE]

\* A free slot for a resume() call.
freeOp(o) ==
    CHOOSE i \in OpIds :
        /\ ~o[i].live
        /\ \A j \in OpIds : ~o[j].live => i <= j

hasFreeOp(o) == \E i \in OpIds : ~o[i].live

\* ctx.resume() wrapped in withTimeout(), with the calls awaiting it.
issue(o, dev, kind, waiters) ==
    [o EXCEPT ![freeOp(o)] =
        withTimeout([live |-> TRUE, dev |-> dev, kind |-> kind,
                     waiters |-> waiters, timer |-> FALSE])]

\* A resume() on the device has been issued and has neither settled nor
\* timed out.
resumeInFlight(o, dev) == \E i \in OpIds : o[i].live /\ o[i].dev = dev

\* Mutant: ensureRunning() that never reuses the unlock promise.
hasUnlockPromiseNever(a) == FALSE

\* ensureRunning(), testSound(): an unlock promise is in progress.
hasUnlockPromise(a) == a.unlockPromise # NULL

\* attemptUnlock() after its await: catch and finally.
attemptUnlockSettled(a, outcome) ==
    LET b == IF outcome # "resolved" /\ includesDeviceFailure(outcome)
             THEN destroyContext(a)
             ELSE a
    IN [b EXCEPT !.resumeInProgress = FALSE]

\* The visibility listener's then, catch and finally.
visibilitySettled(a, outcome) ==
    LET b == IF outcome # "resolved" /\ includesDeviceFailure(outcome)
             THEN destroyContext(a)
             ELSE a
    IN [b EXCEPT !.resumeInProgress = FALSE]

\* Mutant: playBeep() without the finally that clears the guard.
playBeepSettledKeepsGuard(a, ctx, outcome, synthOk) ==
    IF outcome = "resolved"
    THEN doPlayBeep(a, ctx, synthOk)
    ELSE IF includesDeviceFailure(outcome)
    THEN destroyContext(a)
    ELSE a

\* playBeep()'s then, catch and finally.
playBeepSettled(a, ctx, outcome, synthOk) ==
    LET b == IF outcome = "resolved"
             THEN doPlayBeep(a, ctx, synthOk)
             ELSE IF includesDeviceFailure(outcome)
             THEN destroyContext(a)
             ELSE a
    IN [b EXCEPT !.resumeInProgress = FALSE]

\* testSound() after a successful await: re-get the device and play.
testSoundPlay(a, synthOk) ==
    LET b == getContext(a)
    IN IF b.overflow
       THEN b
       ELSE IF b.devState[b.context] = "running"
       THEN [doPlayBeep(b, b.context, synthOk) EXCEPT !.played = @ + 1]
       ELSE [b EXCEPT !.silent = @ + 1]

\* testSound()'s catch.
testSoundCatch(a, outcome) ==
    LET b == IF includesDeviceFailure(outcome) THEN destroyContext(a) ELSE a
    IN [b EXCEPT !.silent = @ + 1]

\* testSound() after awaiting its own resume: finally, then play or catch.
testSoundSettled(a, outcome, synthOk) ==
    LET b == [a EXCEPT !.resumeInProgress = FALSE]
    IN IF outcome = "resolved"
       THEN testSoundPlay(b, synthOk)
       ELSE testSoundCatch(b, outcome)

\* testSound() after awaiting the unlock promise it found.
testSoundJoined(a, outcome, synthOk) ==
    IF outcome = "resolved"
    THEN testSoundPlay(a, synthOk)
    ELSE testSoundCatch(a, outcome)

\* ensureRunning() after its await: catch, then return this.getContext().
ensureRunningResumed(a, outcome) ==
    LET b == IF outcome # "resolved" /\ includesDeviceFailure(outcome)
             THEN destroyContext(a)
             ELSE a
        c == getContext(b)
    IN IF c.overflow
       THEN c
       ELSE [c EXCEPT !.retOk = @ /\ c.devState[c.context] \in
                                        Suspended \cup {"running"},
                      !.returned = @ \cup {c.context}]

\* The calls awaiting the unlock promise, resumed in the order they awaited.
RECURSIVE unlockWaiters(_, _, _, _)
unlockWaiters(a, ws, outcome, synthOk) ==
    IF ws = <<>> \/ a.overflow
    THEN a
    ELSE unlockWaiters(
            IF Head(ws) = "ensureRunning"
            THEN ensureRunningResumed(a, outcome)
            ELSE testSoundJoined(a, outcome, synthOk),
            Tail(ws), outcome, synthOk)

\* The unlock promise settles: its finally, then the calls awaiting it.
unlockSettled(a, ws, outcome, synthOk) ==
    unlockWaiters([a EXCEPT !.unlockPromise = NULL,
                            !.resumeInProgress = FALSE],
                  ws, outcome, synthOk)

\* The devices a step closed: open or not yet created in a, closed in b.
closedBy(a, b) ==
    {d \in Devices : a.devState[d] # "closed" /\ b.devState[d] = "closed"}

\* The callbacks chained on a resume, by the call that issued it.
settled(a, op, outcome, synthOk) ==
    IF op.kind = "gesture" THEN attemptUnlockSettled(a, outcome)
    ELSE IF op.kind = "visibility" THEN visibilitySettled(a, outcome)
    ELSE IF op.kind = "playBeep"
    THEN playBeepSettled(a, op.dev, outcome, synthOk)
    ELSE IF op.kind = "testSound" THEN testSoundSettled(a, outcome, synthOk)
    ELSE unlockSettled(a, op.waiters, outcome, synthOk)

\* History of a step.
Log(op, kind, pre, busy, issued, outcome, a) ==
    [op |-> op, kind |-> kind, pre |-> pre, busy |-> busy, issued |-> issued,
     outcome |-> outcome, tones |-> a.tones, faults |-> a.faults,
     closed |-> a.closed, retOk |-> a.retOk, created |-> a.created,
     thrown |-> a.thrown, played |-> a.played, silent |-> a.silent,
     stray |-> FALSE,
     retClosed |-> \E d \in a.returned : a.devState[d] = "closed",
     report |-> [none |-> TRUE]]

\* The end of a step of the service.  A closed AudioContext neither the
\* service nor a pending resume refers to any more is gone.
CommitAudio(a, newOps, log) ==
    /\ ~a.overflow
    /\ context' = a.context
    /\ devState' =
        [d \in Devices |->
            IF a.devState[d] = "closed"
               /\ d # a.context
               /\ \A i \in OpIds : ~(newOps[i].live /\ newOps[i].dev = d)
            THEN "absent"
            ELSE a.devState[d]]
    /\ unlockPromise' = a.unlockPromise
    /\ resumeInProgress' = a.resumeInProgress
    /\ unlockListenersAttached' = a.unlockListenersAttached
    /\ visibilityListenerAttached' = a.visibilityListenerAttached
    /\ ops' = newOps
    /\ abandoned' = {d \in a.abandoned : a.devState[d] # "closed"}
    /\ recorder' = a.recorder
    /\ aLast' = log
    /\ aPrev' = (aLast.op = "ensureRunning" /\ aLast.issued /\ ~aLast.busy)
    /\ aFault' = (aLast.faults >= 1 /\ context = NULL)
    /\ UNCHANGED setsVars

\* A step of the service alone.
Commit(a, newOps, log) ==
    /\ CommitAudio(a, newOps, log)
    /\ UNCHANGED timerVars

\* prime()
prime ==
    LET a == getContext(svc)
    IN Commit(a, ops,
              Log("prime", "none", "absent", FALSE, FALSE, "none", a))

\* A user gesture on the page: attemptUnlock() up to its await.  What the
\* recorder throws inside the try is thrown again by the catch, after which
\* the finally clears the guard.
gesture ==
    /\ unlockListenersAttached
    /\ LET ctx == context
           st == IF ctx = NULL THEN "absent" ELSE devState[ctx]
           busy == ctx # NULL /\ resumeInFlight(ops, ctx)
           a == recordAudioEvent(svc)
       IN IF ctx = NULL \/ st = "running" \/ resumeInProgress
             \/ st \notin Suspended
          THEN Commit(svc, ops,
                      Log("gesture", "none", st, busy, FALSE, "none", svc))
          ELSE IF a.thrown
          THEN Commit(a, ops,
                      Log("gesture", "none", st, busy, FALSE, "none", a))
          ELSE /\ hasFreeOp(ops)
               /\ Commit([a EXCEPT !.resumeInProgress = TRUE],
                         issue(ops, ctx, "gesture", <<>>),
                         Log("gesture", "none", st, busy, TRUE, "none", a))

\* The page becomes visible: the visibilitychange listener.  The guard is
\* set before the event is recorded, outside any try.
visibility ==
    /\ visibilityListenerAttached
    /\ LET ctx == context
           st == IF ctx = NULL THEN "absent" ELSE devState[ctx]
           busy == ctx # NULL /\ resumeInFlight(ops, ctx)
           a == recordAudioEvent([svc EXCEPT !.resumeInProgress = TRUE])
       IN IF ctx = NULL \/ st \notin Suspended \/ resumeInProgress
          THEN Commit(svc, ops,
                      Log("visibility", "none", st, busy, FALSE, "none",
                          svc))
          ELSE IF a.thrown
          THEN Commit(a, ops,
                      Log("visibility", "none", st, busy, FALSE, "none", a))
          ELSE /\ hasFreeOp(ops)
               /\ Commit(a, issue(ops, ctx, "visibility", <<>>),
                         Log("visibility", "none", st, busy, TRUE, "none",
                             a))

\* ensureRunning() up to its await, or to its return on a running device.
ensureRunning ==
    LET a == getContext(svc)
    IN /\ ~a.overflow
       /\ LET ctx == a.context
              st == a.devState[ctx]
              busy == resumeInFlight(ops, ctx)
              b == recordAudioEvent(a)
              log(issued, c) ==
                  Log("ensureRunning", "none", st, busy, issued, "none", c)
          IN IF a.thrown \/ st = "running"
             THEN Commit(a, ops, log(FALSE, a))
             ELSE IF b.thrown
             THEN Commit(b, ops, log(FALSE, b))
             ELSE IF hasUnlockPromise(b)
             THEN /\ Len(ops[b.unlockPromise].waiters) < MaxWaiters
                  /\ Commit(b,
                            [ops EXCEPT ![b.unlockPromise].waiters =
                                Append(@, "ensureRunning")],
                            log(FALSE, b))
             ELSE /\ hasFreeOp(ops)
                  /\ Commit([b EXCEPT !.resumeInProgress = TRUE,
                                      !.unlockPromise = freeOp(ops)],
                            issue(ops, ctx, "ensureRunning",
                                  <<"ensureRunning">>),
                            log(TRUE, b))

\* One call of playBeep(): the service and the pending resumes after it,
\* with the device state it found, whether a resume was in flight on that
\* device and whether the call issued one.
playBeepCall(a0, o, synthOk) ==
    LET a == getContext(a0)
        ctx == a.context
        st == IF a.overflow THEN "absent" ELSE a.devState[ctx]
        busy == ~a.overflow /\ resumeInFlight(o, ctx)
        b == recordAudioEvent(a)
        res(c, newOps, issued) ==
            [a |-> c, ops |-> newOps, pre |-> st, busy |-> busy,
             issued |-> issued]
    IN IF a.overflow \/ a.thrown
       THEN res(a, o, FALSE)
       ELSE IF st \in Suspended
       THEN IF a.resumeInProgress \/ b.thrown
            THEN res(b, o, FALSE)
            ELSE IF hasFreeOp(o)
            THEN res([b EXCEPT !.resumeInProgress = TRUE],
                     issue(o, ctx, "playBeep", <<>>), TRUE)
            ELSE res([b EXCEPT !.overflow = TRUE], o, FALSE)
       ELSE res(doPlayBeep(a, ctx, synthOk), o, FALSE)

\* playBeep()
playBeep ==
    \E synthOk \in BOOLEAN :
        \E r \in {playBeepCall(svc, ops, synthOk)} :
            Commit(r.a, r.ops,
                   Log("playBeep", "none", r.pre, r.busy, r.issued, "none",
                       r.a))

\* testSound() up to its await, or to its end on a running device.
testSound ==
    \E synthOk \in BOOLEAN :
        LET a == getContext(svc)
        IN /\ ~a.overflow
           /\ LET ctx == a.context
                  st == a.devState[ctx]
                  busy == resumeInFlight(ops, ctx)
                  b == IF a.thrown THEN a ELSE recordAudioEvent(a)
                  beeped == doPlayBeep(b, ctx, synthOk)
                  played == IF beeped.thrown
                            THEN beeped
                            ELSE [beeped EXCEPT !.played = @ + 1]
                  log(issued, c) ==
                      Log("testSound", "none", st, busy, issued, "none", c)
              IN IF b.thrown
                 THEN Commit(b, ops, log(FALSE, b))
                 ELSE IF st # "running"
                 THEN IF hasUnlockPromise(b)
                      THEN /\ Len(ops[b.unlockPromise].waiters) < MaxWaiters
                           /\ Commit(b,
                                     [ops EXCEPT ![b.unlockPromise].waiters =
                                         Append(@, "testSound")],
                                     log(FALSE, b))
                      ELSE /\ hasFreeOp(ops)
                           /\ Commit([b EXCEPT !.resumeInProgress = TRUE],
                                     issue(ops, ctx, "testSound", <<>>),
                                     log(TRUE, b))
                 ELSE Commit(played, ops, log(FALSE, played))

\* A resume() settles or its timer fires: its slot is freed and the chained
\* callbacks run.
settle(i, outcome, synthOk) ==
    LET op == ops[i]
        a == IF outcome = "resolved"
             THEN [svc EXCEPT !.devState[op.dev] = "running"]
             ELSE svc
    IN
    /\ ops' = [ops EXCEPT ![i] = NoOp]
    /\ \E b \in {settled(a, op, outcome, synthOk)} :
        Commit(IF outcome = TimeoutError
               THEN [b EXCEPT !.abandoned = @ \cup {op.dev}]
               ELSE b,
               ops',
               [Log("settle", op.kind, "absent", FALSE, FALSE, outcome, b)
                   EXCEPT !.stray = closedBy(svc, b) \ {op.dev} # {}])

\* resume() resolves: the device runs.
resumeResolves(i) ==
    /\ ops[i].live
    /\ devState[ops[i].dev] # "closed"
    /\ \E synthOk \in BOOLEAN : settle(i, "resolved", synthOk)

\* resume() rejects.
resumeRejects(i) ==
    /\ ops[i].live
    /\ \E err \in ResumeErrors : settle(i, err, TRUE)

\* resume() has not settled when the timer of withTimeout() fires.
resumeTimesOut(i) ==
    /\ ops[i].live
    /\ ops[i].timer
    /\ settle(i, TimeoutError, TRUE)

\* A resume() settles after its timer fired: nothing is chained on it any
\* more, but a resolved resume still starts the device.
resumeSettlesLate(d) ==
    /\ d \in abandoned
    /\ \E ok \in BOOLEAN :
        LET a == IF ok /\ devState[d] # "closed"
                 THEN [svc EXCEPT !.devState[d] = "running",
                                  !.abandoned = @ \ {d}]
                 ELSE [svc EXCEPT !.abandoned = @ \ {d}]
        IN Commit(a, ops,
                  Log("late", "none", "absent", FALSE, FALSE, "none", a))

\* The platform interrupts the running device.
interrupt ==
    /\ context # NULL
    /\ devState[context] = "running"
    /\ Commit([svc EXCEPT !.devState[context] = "interrupted"], ops,
              Log("interrupt", "none", "absent", FALSE, FALSE, "none", svc))

InitAudio == InitWith(AppProfile)

NextAudio ==
    \/ prime
    \/ gesture
    \/ visibility
    \/ ensureRunning
    \/ playBeep
    \/ testSound
    \/ \E i \in OpIds : resumeResolves(i)
    \/ \E i \in OpIds : resumeRejects(i)
    \/ \E i \in OpIds : resumeTimesOut(i)
    \/ \E d \in Devices : resumeSettlesLate(d)
    \/ interrupt

SpecAudio == InitAudio /\ [][NextAudio]_vars

\* A resume() wrapped in withTimeout() comes to an end: it settles, or the
\* timer fires.  In every reachable state resumeTimesOut(i) is enabled
\* exactly when the resume in slot i is pending with its timer armed.
resumeEnds(i) ==
    /\ ops[i].live
    /\ ops[i].timer
    /\ ops' = [ops EXCEPT ![i] = NoOp]

\* The timer of withTimeout() fires unless the resume settles first.
SpecAudioFair ==
    SpecAudio /\ \A i \in OpIds : WF_ops(resumeEnds(i))

AudioTypeOK ==
    /\ context \in {NULL} \cup Devices
    /\ devState \in [Devices -> AudioStates]
    /\ unlockPromise \in {NULL} \cup OpIds
    /\ resumeInProgress \in BOOLEAN
    /\ unlockListenersAttached \in BOOLEAN
    /\ visibilityListenerAttached \in BOOLEAN
    /\ recorder = "records"
    /\ ~aLast.thrown
    /\ \A i \in OpIds :
        /\ ops[i].kind \in OpKinds \cup {"none"}
        /\ ops[i].dev \in {NULL} \cup Devices
        /\ Len(ops[i].waiters) <= MaxWaiters
    /\ context # NULL => devState[context] \in Suspended \cup {"running"}
    /\ \A d \in Devices \ {context} : devState[d] \in {"absent", "closed"}
    /\ abandoned \subseteq {context}
    /\ unlockPromise # NULL =>
        /\ ops[unlockPromise].live
        /\ ops[unlockPromise].kind = "ensureRunning"
        /\ ops[unlockPromise].dev = context


\* What getState() leaves of the service and what it reports; a state of
\* null is written "null".
getStateReport(a) ==
    [contextExists |-> a.context # NULL,
     state |-> IF a.context = NULL THEN "null" ELSE a.devState[a.context],
     unlockListenersAttached |-> a.unlockListenersAttached]

\* Mutant: getState() that goes through getContext().
getStateCallCreates(a) ==
    [a |-> getContext(a), report |-> getStateReport(getContext(a))]

getStateCall(a) == [a |-> a, report |-> getStateReport(a)]

\* getState()
getState ==
    \E r \in {getStateCall(svc)} :
        Commit(r.a, ops,
               [Log("getState", "none", "absent", FALSE, FALSE, "none", r.a)
                    EXCEPT !.report = r.report])

\* The service with the diagnostics panel of the App reading its state.
NextDiag ==
    \/ NextAudio
    \/ getState

SpecDiag == InitAudio /\ [][NextDiag]_vars

\* What recordStateChange() does when called: it records, or it throws.
Recorders == {"records", "fails"}

\* The service with either recorder.
InitRecorder ==
    /\ TimerInit(AppProfile)
    /\ AudioInit
    /\ recorder \in Recorders
    /\ SetsInit

SpecRecorder == InitRecorder /\ [][NextAudio]_vars

\* The AudioContext is closed while the service still holds it: the case
\* the second condition of getContext() is written for.
contextCloses ==
    /\ context # NULL
    /\ devState[context] # "closed"
    /\ Commit([svc EXCEPT !.devState[context] = "closed"], ops,
              Log("closes", "none", devState[context], FALSE, FALSE, "none",
                  svc))

NextClosed ==
    \/ NextAudio
    \/ contextCloses

SpecClosed == InitAudio /\ [][NextClosed]_vars

----------------------------------------------------------------------------
(* The AudioService of src/services/audioService.ts: the service without   *)
(* the resume timeout, the resume guard, the visibility listener and the   *)
(* recorder, and with gesture listeners that remove themselves.            *)

\* getContext() with setupUnlockListeners().
legacyGetContext(a) ==
    IF a.context = NULL \/ a.devState[a.context] = "closed"
    THEN
        IF \E d \in Devices : a.devState[d] = "absent"
        THEN [a EXCEPT !.context = freshDevice(a),
                       !.devState[freshDevice(a)] = "suspended",
                       !.created = IF a.context = NULL
                                   THEN "absent" ELSE "closed",
                       !.unlockListenersAttached = TRUE]
        ELSE [a EXCEPT !.overflow = TRUE]
    ELSE a

\* cleanup(): remove the gesture listeners.
legacyCleanup(a) == [a EXCEPT !.unlockListenersAttached = FALSE]

\* doPlayBeep(): a fault during synthesis closes and forgets the service's
\* device.
legacyDoPlayBeep(a, ctx, synthOk) ==
    IF a.devState[ctx] # "running"
    THEN a
    ELSE IF synthOk
    THEN [a EXCEPT !.tones = @ + 1]
    ELSE IF a.context # NULL
    THEN [a EXCEPT !.faults = @ + 1,
                   !.devState[a.context] = "closed",
                   !.context = NULL,
                   !.closed = @ + 1]
    ELSE [a EXCEPT !.faults = @ + 1]

\* ctx.resume(), bare, with the calls awaiting it.
legacyIssue(o, dev, kind, waiters) ==
    [o EXCEPT ![freeOp(o)] =
        [live |-> TRUE, dev |-> dev, kind |-> kind, waiters |-> waiters,
         timer |-> FALSE]]

\* The callbacks chained on a resume, by the call that issued it.
legacySettled(a, op, outcome, synthOk) ==
    IF op.kind = "gesture"
    THEN IF outcome = "resolved" /\ a.devState[op.dev] = "running"
         THEN legacyCleanup(a)
         ELSE a
    ELSE IF op.kind = "ensureRunning"
    THEN [a EXCEPT !.unlockPromise = NULL]
    ELSE IF outcome = "resolved"
    THEN legacyDoPlayBeep(a, op.dev, synthOk)
    ELSE a

\* prime()
legacyPrime ==
    LET a == legacyGetContext(svc)
    IN Commit(a, ops,
              Log("prime", "none", "absent", FALSE, FALSE, "none", a))

\* A user gesture while the listeners are attached: attemptUnlock() up to
\* its await.
legacyGesture ==
    /\ unlockListenersAttached
    /\ LET ctx == context
           st == IF ctx = NULL THEN "absent" ELSE devState[ctx]
           busy == ctx # NULL /\ resumeInFlight(ops, ctx)
           log(issued) ==
               Log("gesture", "none", st, busy, issued, "none", svc)
       IN IF ctx = NULL
          THEN Commit(svc, ops, log(FALSE))
          ELSE IF st = "running"
          THEN Commit(legacyCleanup(svc), ops, log(FALSE))
          ELSE IF st \in Suspended
          THEN /\ hasFreeOp(ops)
               /\ Commit(svc, legacyIssue(ops, ctx, "gesture", <<>>),
                         log(TRUE))
          ELSE Commit(svc, ops, log(FALSE))

\* ensureRunning() up to its await, or to its return on a running device.
legacyEnsureRunning ==
    LET a == legacyGetContext(svc)
    IN /\ ~a.overflow
       /\ LET ctx == a.context
              st == a.devState[ctx]
              busy == resumeInFlight(ops, ctx)
              log(issued) ==
                  Log("ensureRunning", "none", st, busy, issued, "none", a)
          IN IF st \notin Suspended
             THEN Commit(a, ops, log(FALSE))
             ELSE IF hasUnlockPromise(a)
             THEN /\ Len(ops[a.unlockPromise].waiters) < MaxWaiters
                  /\ Commit(a,
                            [ops EXCEPT ![a.unlockPromise].waiters =
                                Append(@, "ensureRunning")],
                            log(FALSE))
             ELSE /\ hasFreeOp(ops)
                  /\ Commit([a EXCEPT !.unlockPromise = freeOp(ops)],
                            legacyIssue(ops, ctx, "ensureRunning",
                                        <<"ensureRunning">>),
                            log(TRUE))

\* playBeep()
legacyPlayBeep ==
    \E synthOk \in BOOLEAN :
        LET a == legacyGetContext(svc)
        IN /\ ~a.overflow
           /\ LET ctx == a.context
                  st == a.devState[ctx]
                  busy == resumeInFlight(ops, ctx)
                  played == legacyDoPlayBeep(a, ctx, synthOk)
                  log(issued, b) ==
                      Log("playBeep", "none", st, busy, issued, "none", b)
              IN IF st \in Suspended
                 THEN /\ hasFreeOp(ops)
                      /\ Commit(a, legacyIssue(ops, ctx, "playBeep", <<>>),
                                log(TRUE, a))
                 ELSE Commit(played, ops, log(FALSE, played))

\* testSound(): synchronous; it reports played: false whenever it has to
\* resume.
legacyTestSound ==
    \E synthOk \in BOOLEAN :
        LET a == legacyGetContext(svc)
        IN /\ ~a.overflow
           /\ LET ctx == a.context
                  st == a.devState[ctx]
                  busy == resumeInFlight(ops, ctx)
                  played == [legacyDoPlayBeep(a, ctx, synthOk)
                                EXCEPT !.played = @ + 1]
                  silent == [a EXCEPT !.silent = @ + 1]
                  log(issued, b) ==
                      Log("testSound", "none", st, busy, issued, "none", b)
              IN IF st = "running"
                 THEN Commit(played, ops, log(FALSE, played))
                 ELSE /\ hasFreeOp(ops)
                      /\ Commit(silent,
                                legacyIssue(ops, ctx, "testSound", <<>>),
                                log(TRUE, silent))

\* A resume() settles: the chained callbacks run.
legacySettle(i, outcome, synthOk) ==
    LET op == ops[i]
        a == IF outcome = "resolved"
             THEN [svc EXCEPT !.devState[op.dev] = "running"]
             ELSE svc
    IN \E b \in {legacySettled(a, op, outcome, synthOk)} :
        Commit(b, [ops EXCEPT ![i] = NoOp],
               Log("settle", op.kind, "absent", FALSE, FALSE, outcome, b))

\* resume() resolves: the device runs.
legacyResumeResolves(i) ==
    /\ ops[i].live
    /\ devState[ops[i].dev] # "closed"
    /\ \E synthOk \in BOOLEAN : legacySettle(i, "resolved", synthOk)

\* resume() rejects.
legacyResumeRejects(i) ==
    /\ ops[i].live
    /\ \E err \in ResumeErrors : legacySettle(i, err, TRUE)

NextLegacy ==
    \/ legacyPrime
    \/ legacyGesture
    \/ legacyEnsureRunning
    \/ legacyPlayBeep
    \/ legacyTestSound
    \/ \E i \in OpIds : legacyResumeResolves(i)
    \/ \E i \in OpIds : legacyResumeRejects(i)
    \/ interrupt

SpecLegacy == InitAudio /\ [][NextLegacy]_vars

----------------------------------------------------------------------------
(* The timer wired to the service through useAudio(): a cue is one         *)
(* playBeep() call made inside the handler, before the handler stores the  *)
(* new TimerState; the further beeps of the cue are playBeep() calls made  *)
(* by timeouts, after the handler has returned.                            *)

\* A profile with every phase and a countdown beep in the work phase.
WiredProfile ==
    [workTime |-> 2, restTime |-> 1, rounds |-> 2, cycles |-> 1, prepTime |-> 1]

\* A handler that has called the service for none of its cues yet.
noCues == [a |-> svc, ops |-> ops, done |-> 0, pre |-> "none"]

\* The first beeps of the cues, requested in order until one throws; pre is
\* the device state the first of them found.
RECURSIVE playCues(_, _, _)
playCues(r, cues, oks) ==
    IF r.done = Len(cues) \/ r.a.thrown \/ r.a.overflow
    THEN r
    ELSE
        LET c == playBeepCall(r.a, r.ops, oks[r.done + 1])
        IN playCues([a |-> c.a, ops |-> c.ops,
                     done |-> IF c.a.thrown THEN r.done ELSE r.done + 1,
                     pre |-> IF r.done = 0 THEN c.pre ELSE r.pre],
                    cues, oks)

\* start() left by an exception of playStartBeep(): nothing is stored and
\* nothing is scheduled.
startAborted(op) ==
    /\ lastOp' = op
    /\ prev' = state
    /\ lastCues' = startCues(state)
    /\ UNCHANGED <<state, profile, intervalRef, intervals, mounted, clean,
                   workDone, restDone, nTicks, pauseSnap>>

\* tick() left by an exception of a cue after done cues: the new state is
\* not stored; the schedule is cleared if clearTimer() had been reached.
tickAborted(op, r, done) ==
    LET cleared == r.clear /\ done >= Len(r.cues) - 1
    IN
    /\ lastOp' = op
    /\ prev' = state
    /\ lastCues' = SubSeq(r.cues, 1, done + 1)
    /\ intervals' = IF cleared THEN clearTimer(intervalRef, intervals)
                               ELSE intervals
    /\ intervalRef' = IF cleared THEN NULL ELSE intervalRef
    /\ UNCHANGED <<state, profile, mounted, clean, workDone, restDone,
                   nTicks, pauseSnap>>

\* History of a handler of the hook: the cue calls it made.
timerLog(op, c) ==
    Log("timer", op, c.pre, FALSE, c.ops # ops, "none", c.a)

\* start() with its cue.
wiredStart ==
    \E oks \in [1..Len(startCues(state)) -> BOOLEAN] :
        \E c \in {playCues(noCues, startCues(state), oks)} :
            /\ IF c.a.thrown THEN startAborted("start")
                             ELSE startTimer("start")
            /\ CommitAudio(c.a, c.ops, timerLog("start", c))

\* pause(): no cue.
wiredPause ==
    /\ pauseTimer("pause")
    /\ CommitAudio(svc, ops, timerLog("pause", noCues))

\* reset(): no cue.
wiredReset ==
    /\ resetTimer
    /\ CommitAudio(svc, ops, timerLog("reset", noCues))

\* A live schedule fires: tick() with its cues.
wiredTick ==
    /\ mounted
    /\ intervals # {}
    /\ LET r == tickResult(state, profile)
       IN \E oks \in [1..Len(r.cues) -> BOOLEAN] :
            \E c \in {playCues(noCues, r.cues, oks)} :
                /\ IF c.a.thrown THEN tickAborted("tick", r, c.done)
                                 ELSE tickTimer("tick")
                /\ CommitAudio(c.a, c.ops, timerLog("tick", c))

InitWired == InitWith(WiredProfile)

NextWired ==
    \/ wiredStart
    \/ wiredPause
    \/ wiredReset
    \/ wiredTick
    \/ playBeep
    \/ gesture
    \/ \E i \in OpIds : resumeResolves(i)
    \/ \E i \in OpIds : resumeRejects(i)
    \/ \E i \in OpIds : resumeTimesOut(i)
    \/ \E d \in Devices : resumeSettlesLate(d)
    \/ interrupt

SpecWired == InitWired /\ [][NextWired]_vars

----------------------------------------------------------------------------
(* Persistence of the tally counter: loadSetsCount(), saveSetsCount() and  *)
(* clearSetsCount() over the "sets" object store.  One action is one call  *)
(* run until the promise it returns settles.                               *)

\* What the storage does to a call: nothing wrong, indexedDB.open() errors,
\* or the get/put/delete request errors.
StorageFaults == {"none", "open", "request"}

\* loadSetsCount(): the value its promise resolves with.
loadSetsCount(st, fault) ==
    [sets |-> st,
     value |-> IF fault # "none" THEN 0
               ELSE IF st = NoData THEN 0
               ELSE IF st.stale THEN 0
               ELSE st.count,
     rejected |-> FALSE]

\* saveSetsCount(count): the store afterwards, and whether the promise it
\* returns rejects.  The promise of the put request is returned, not
\* awaited, so its rejection passes the try/catch by.
saveSetsCount(st, count, fault) ==
    [sets |-> IF fault = "none"
              THEN [count |-> count, stale |-> FALSE]
              ELSE st,
     value |-> count,
     rejected |-> fault = "request"]

\* clearSetsCount(): as saveSetsCount(), with a delete request.
clearSetsCount(st, fault) ==
    [sets |-> IF fault = "none" THEN NoData ELSE st,
     value |-> 0,
     rejected |-> fault = "request"]

\* The end of a persistence call.
setsDone(op, fault, r) ==
    /\ sets' = r.sets
    /\ pLast' = [op |-> op, fault |-> fault, value |-> r.value,
                 rejected |-> r.rejected]
    /\ UNCHANGED <<timerVars, audioVars>>

load ==
    \E fault \in StorageFaults :
        setsDone("load", fault, loadSetsCount(sets, fault))

save ==
    \E count \in 0..MaxCount, fault \in StorageFaults :
        setsDone("save", fault, saveSetsCount(sets, count, fault))

clear ==
    \E fault \in StorageFaults :
        setsDone("clear", fault, clearSetsCount(sets, fault))

\* Thirty minutes pass without a save.
thirtyMinutesPass ==
    /\ sets # NoData
    /\ ~sets.stale
    /\ sets' = [sets EXCEPT !.stale = TRUE]
    /\ pLast' = NoSetsLog
    /\ UNCHANGED <<timerVars, audioVars>>

\* The App on its first start, the store empty.
InitSets == InitWith(AppProfile)

NextSets ==
    \/ load
    \/ save
    \/ clear
    \/ thirtyMinutesPass

SpecSets == InitSets /\ [][NextSets]_vars

----------------------------------------------------------------------------
(* Claims *)

\* The profile of the scenario of C5.
TinyProfile ==
    [workTime |-> 1, restTime |-> 0, rounds |-> 1, cycles |-> 1, prepTime |-> 0]

\* C1: with the profile held constant, an uninterrupted run from a fresh
\* start is done exactly when R work phases and R-1 rest phases have been
\* counted down (before that fewer than R work phases are complete), and
\* rest is entered only while more rounds remain.
C1_RoundsExact ==
    clean =>
        /\ state.phase = "done" =>
              (workDone = profile.rounds /\ restDone = profile.rounds - 1)
        /\ state.phase # "done" => workDone < profile.rounds
        /\ state.phase = "rest" => state.currentRound < profile.rounds

C1_Witness ==
    /\ clean
    /\ lastOp = "tick"
    /\ state.phase = "done"
    /\ profile.rounds >= 2

\* C2: start() on a timer that is not paused yields phase prep, the profile's
\* preparation duration, round 1, the profile's round count, elapsed 0,
\* running and not paused.
C2_FreshStart ==
    ((lastOp = "start" \/ (lastOp = "toggle" /\ ~prev.isRunning))
        /\ ~prev.isPaused) =>
        state = [isRunning |-> TRUE, isPaused |-> FALSE, phase |-> "prep",
                 timeLeft |-> profile.prepTime, currentRound |-> 1,
                 totalRounds |-> profile.rounds, totalElapsed |-> 0]

C2_Witness ==
    /\ lastOp = "start"
    /\ ~prev.isPaused
    /\ prev.phase = "idle"
    /\ profile.prepTime >= 1
    /\ profile.rounds >= 2

\* C3: start() after pause() leaves phase, timeLeft, currentRound and
\* totalElapsed as they were before the pause (the phase is continued, not
\* restarted), and pause() on a paused timer changes nothing.
C3_PauseResumePreserves ==
    /\ (lastOp = "start" /\ prev.isPaused) =>
          /\ state.phase = pauseSnap.phase
          /\ state.timeLeft = pauseSnap.timeLeft
          /\ state.currentRound = pauseSnap.currentRound
          /\ state.totalElapsed = pauseSnap.totalElapsed
    /\ (lastOp = "pause" /\ prev.isPaused) => state = prev

C3_Witness ==
    /\ lastOp = "start"
    /\ prev.isPaused
    /\ pauseSnap # NoSnap
    /\ pauseSnap.isRunning
    /\ state.phase = "rest"
    /\ state.timeLeft = 3
    /\ state.currentRound = 2

\* C4: reset() from any state yields the idle state with round 1, elapsed 0,
\* timeLeft 0, not running, not paused, and the round count of the profile
\* current at the reset.
C4_ResetToIdle ==
    lastOp = "reset" =>
        state = [isRunning |-> FALSE, isPaused |-> FALSE, phase |-> "idle",
                 timeLeft |-> 0, currentRound |-> 1,
                 totalRounds |-> profile.rounds, totalElapsed |-> 0]

C4_Witness ==
    /\ lastOp = "reset"
    /\ prev.isRunning
    /\ prev.totalElapsed > 0
    /\ prev.totalRounds # profile.rounds

\* C5: with profile {work=1, rest=0, rounds=1, prep=0}, one tick after a
\* fresh start leaves the timer done, not running, with totalElapsed = 1.
C5_TinyProfileOneTick ==
    (profile = TinyProfile /\ clean /\ nTicks = 1) =>
        /\ state.phase = "done"
        /\ ~state.isRunning
        /\ state.totalElapsed = 1

\* C6: with profile {work=30, rest=5, rounds=6, prep=5, cycles=1}, after a
\* fresh start: 5 ticks give work with 30 left, 35 ticks give rest with 5
\* left, 40 ticks give work, round 2, with 30 left.
C6_PresetScenario ==
    (profile = AppProfile /\ clean) =>
        /\ nTicks = 5 => (state.phase = "work" /\ state.timeLeft = 30)
        /\ nTicks = 35 => (state.phase = "rest" /\ state.timeLeft = 5)
        /\ nTicks = 40 => (/\ state.phase = "work"
                           /\ state.currentRound = 2
                           /\ state.timeLeft = 30)

C6_Witness ==
    /\ profile = AppProfile
    /\ clean
    /\ lastOp = "tick"
    /\ nTicks = 40

\* C7: isRunning and isPaused are never both true.
C7_RunningPausedExclusive == ~(state.isRunning /\ state.isPaused)

C7_Witness ==
    /\ lastOp = "pause"
    /\ prev.isRunning
    /\ state.isPaused

\* C8: phase done implies isRunning = false.
C8_DoneNotRunning == state.phase = "done" => ~state.isRunning

C10_StartWhileRunningNoOp ==
    (lastOp = "start" /\ prev.isRunning) =>
        /\ state.phase = prev.phase
        /\ state.timeLeft = prev.timeLeft
        /\ state.currentRound = prev.currentRound
        /\ state.totalElapsed = prev.totalElapsed

\* C11: pause() on an idle timer (never started, or reset) or on a paused
\* timer changes nothing in TimerState.
C11_PauseIdleNoOp ==
    (lastOp = "pause"
        /\ (prev.isPaused \/ (prev.phase = "idle" /\ ~prev.isRunning))) =>
        state = prev

\* C12: at most one periodic tick source is scheduled at any time.
C12_OneTickSource ==
    /\ Cardinality(intervals) <= 1
    /\ intervalRef # NULL => intervals = {intervalRef}

C12_Witness ==
    /\ lastOp = "start"
    /\ prev.isRunning
    /\ Cardinality(intervals) = 1

\* C13: no tick source is scheduled after pause(), after reset(), after the
\* tick that moves the phase to done, or after the component unmounts.
C13_NoOrphanSchedule ==
    (\/ lastOp \in {"pause", "reset", "unmount"}
     \/ (lastOp = "toggle" /\ prev.isRunning)
     \/ (lastOp = "tick" /\ state.phase = "done" /\ prev.phase # "done")) =>
        (intervals = {} /\ intervalRef = NULL)

C13_Witness ==
    /\ lastOp = "unmount"
    /\ ~mounted
    /\ state.isRunning
    /\ state.phase = "work"

\* C14: a tick that fires while isRunning is false leaves TimerState
\* unchanged and requests no cue.
C14_StoppedTickNoOp ==
    (lastOp \in {"tick", "lateTick"} /\ ~prev.isRunning) =>
        (state = prev /\ lastCues = <<>>)

C14_Witness ==
    /\ lastOp = "lateTick"
    /\ prev.isPaused
    /\ prev.phase = "work"
    /\ intervals = {}

\* The resume() calls in flight on a device.
inFlight(d) == {i \in OpIds : ops[i].live /\ ops[i].dev = d}

\* C15: of two ensureRunning() calls in immediate succession on a suspended
\* device with no resume in flight, the first issues the one resume() call
\* and the second issues none and awaits the same promise.
C15_SecondCallJoins ==
    (aPrev /\ aLast.op = "ensureRunning") =>
        /\ ~aLast.issued
        /\ unlockPromise # NULL
        /\ inFlight(context) = {unlockPromise}
        /\ Len(ops[unlockPromise].waiters) >= 2

C15_Witness ==
    /\ aPrev
    /\ aLast.op = "ensureRunning"
    /\ aLast.pre = "suspended"
    /\ unlockPromise # NULL
    /\ ops[unlockPromise].waiters = <<"ensureRunning", "ensureRunning">>

\* C16: at most one resume() is in flight on a device, whatever the
\* interleaving of gestures, visibility events, ensureRunning(), playBeep()
\* and testSound().
C16_OneResumeInFlight ==
    \A d \in Devices : Cardinality(inFlight(d)) <= 1

\* C17: every ensureRunning() call resolves, with a handle of a device that
\* is not closed; a call awaiting a resume that never settles resolves when
\* the timer fires.
C17_EnsureResolves ==
    /\ [](aLast.retOk)
    /\ \A i \in OpIds :
        (ops[i].live /\ ops[i].kind = "ensureRunning") ~>
            ~(ops[i].live /\ ops[i].kind = "ensureRunning")

C17_Witness ==
    /\ aLast.op = "settle"
    /\ aLast.kind = "ensureRunning"
    /\ aLast.outcome = TimeoutError
    /\ aLast.retOk
    /\ context # NULL
    /\ \A i \in OpIds : ~ops[i].live

\* C18 as claimed: a resume attempt that times out tears the device down.
C18_TimeoutTearsDown ==
    (aLast.op = "settle" /\ aLast.outcome = TimeoutError) =>
        aLast.closed >= 1

\* C18: a resume attempt that times out clears the resume guard and tears
\* no device down (the device stays the service's device, in the state it
\* had); a resume the platform rejects with the device failure is what
\* leaves the service without a device.
C18_TimeoutKeepsDevice ==
    /\ (aLast.op = "settle" /\ aLast.outcome = TimeoutError) =>
        (aLast.closed = 0 /\ ~resumeInProgress)
    /\ (/\ aLast.op = "settle"
        /\ aLast.outcome = "Failed to start the audio device"
        /\ aLast.kind \in {"gesture", "visibility", "playBeep"}) =>
        context = NULL

C18_Witness ==
    /\ aLast.op = "settle"
    /\ aLast.kind = "playBeep"
    /\ aLast.outcome = TimeoutError
    /\ context # NULL
    /\ devState[context] = "suspended"
    /\ abandoned = {context}

C20_BusyBeepDropped ==
    (aLast.op = "playBeep" /\ aLast.pre \in Suspended /\ aLast.busy) =>
        (~aLast.issued /\ aLast.tones = 0)

\* C23: a synthesis fault on a running device is absorbed (nothing is
\* thrown to the caller) and the device is torn down, leaving the service
\* without the faulted device; the next playBeep() or ensureRunning()
\* creates a new device.
C23_FaultAbsorbed ==
    /\ [](aLast.faults >= 1 =>
            /\ aLast.closed >= 1
            /\ ~aLast.thrown
            /\ (context = NULL \/ aLast.created # "none"))
    /\ [][(/\ aLast.faults >= 1
           /\ context = NULL
           /\ aLast'.op \in {"playBeep", "ensureRunning"}) =>
            /\ aLast'.created = "absent"
            /\ context' # NULL
            /\ devState'[context'] = "suspended"]_vars

C23_Witness ==
    /\ aFault
    /\ aLast.op = "playBeep"
    /\ aLast.created = "absent"
    /\ aLast.issued
    /\ context # NULL
    /\ devState[context] = "suspended"

\* C24: a call of prime(), ensureRunning(), playBeep() or testSound() that
\* finds the device closed creates a new device and works on that one: the
\* resume it issues is a resume of the new device, which it finds
\* suspended, and no ensureRunning() returns a closed device.
C24_ClosedReplaced ==
    /\ [](aLast.retOk)
    /\ [][(/\ context # NULL
           /\ devState[context] = "closed"
           /\ aLast'.op \in {"prime", "ensureRunning", "playBeep",
                              "testSound"}) =>
            /\ aLast'.created = "closed"
            /\ context' \notin {NULL, context}
            /\ devState'[context'] = "suspended"
            /\ aLast'.tones = 0
            /\ aLast'.issued =>
                \E i \in OpIds :
                    /\ ~ops[i].live
                    /\ ops'[i].live
                    /\ ops'[i].dev = context']_vars

C24_Witness ==
    /\ aLast.op = "playBeep"
    /\ aLast.created = "closed"
    /\ aLast.pre = "suspended"
    /\ aLast.issued
    /\ context # NULL
    /\ devState[context] = "suspended"

\* C26 as claimed: testSound() never throws, and the results it reports
\* with played = true are exactly the tones it synthesized.
C26_PlayedIffTone ==
    (\/ aLast.op = "testSound"
     \/ aLast.op = "settle" /\ aLast.kind \in {"testSound", "ensureRunning"})
        => (~aLast.thrown /\ aLast.played = aLast.tones)

\* C27: ensureRunning(), playBeep() and testSound() on a running device
\* issue no resume(), join none, and use the device as it is: playBeep()
\* and testSound() go straight to synthesis.
C27_NoResumeOnRunning ==
    [][(/\ aLast'.op \in {"ensureRunning", "playBeep", "testSound"}
        /\ aLast'.pre = "running") =>
            /\ ~aLast'.issued
            /\ ops' = ops
            /\ aLast'.created = "none"
            /\ aLast'.op # "ensureRunning" =>
                aLast'.tones + aLast'.faults = 1]_vars

C27_Witness ==
    /\ aLast.op = "testSound"
    /\ aLast.pre = "running"
    /\ aLast.tones = 1
    /\ ~aLast.issued
    /\ \A i \in OpIds : ~ops[i].live
    /\ context # NULL
    /\ devState[context] = "running"

\* C28: getState() changes nothing of the service and reports it as it is:
\* no device (state null) while none has been created, and an existing
\* suspended device right after the prime() that created one.
C28_GetStatePure ==
    [][aLast'.op = "getState" =>
        /\ UNCHANGED <<context, devState, unlockPromise, resumeInProgress,
                       unlockListenersAttached, visibilityListenerAttached,
                       ops, abandoned>>
        /\ aLast'.report = getStateReport(svc)
        /\ context = NULL =>
            (~aLast'.report.contextExists /\ aLast'.report.state = "null")
        /\ (aLast.op = "prime" /\ aLast.created # "none") =>
            /\ aLast'.report.contextExists
            /\ aLast'.report.state = "suspended"]_vars

C28_Witness ==
    /\ aLast.op = "getState"
    /\ aLast.report.contextExists
    /\ aLast.report.state = "suspended"
    /\ aLast.report.unlockListenersAttached
    /\ context # NULL
    /\ devState[context] = "suspended"
    /\ ~resumeInProgress
    /\ \A i \in OpIds : ~ops[i].live

\* C29 as claimed: the service behaves with a failing recorder as it does
\* with a recording one, where no call throws, a device always has its
\* listeners, and a request on a suspended device leaves a resume in flight
\* or the guard set.
C29_RecorderUnobserved ==
    /\ ~aLast.thrown
    /\ context # NULL =>
        (unlockListenersAttached /\ visibilityListenerAttached)
    /\ (/\ aLast.op \in {"ensureRunning", "playBeep", "testSound"}
        /\ aLast.pre \in Suspended) =>
        (inFlight(context) # {} \/ resumeInProgress)

\* C25 as claimed: the gesture listeners are never removed;
\* unlockListenersAttached, which getState() reports, never goes from true
\* to false.
C25_ListenersStay ==
    [][unlockListenersAttached => unlockListenersAttached']_vars

\* C21: whatever the state of the audio device and whatever becomes of its
\* resumes and of synthesis, no handler of the timer is cut short by a cue,
\* and the TimerState start(), pause(), reset() and tick() store is the one
\* the TimerState and the profile before the call determine.
C21_TimerUnaffected ==
    [][aLast'.op = "timer" =>
        /\ ~aLast'.thrown
        /\ state' =
            syncTotalRounds(
                CASE aLast'.kind = "start" -> startState(state, profile)
                  [] aLast'.kind = "pause" -> pauseState(state)
                  [] aLast'.kind = "reset" -> resetState(state, profile)
                  [] OTHER -> tickResult(state, profile).state,
                profile)]_vars

C21_Witness ==
    /\ aLast.op = "timer"
    /\ aLast.kind = "tick"
    /\ aLast.faults >= 1
    /\ lastOp = "tick"
    /\ prev.phase = "prep"
    /\ state.phase = "work"
    /\ state.totalElapsed = prev.totalElapsed + 1
    /\ context = NULL

\* C22 as claimed: start() asks the service to get the device running, on a
\* fresh start and on a resume of a run that was paused: during the call
\* the service is called and looks at the state of the device.
C22_StartEnsuresRunning ==
    (/\ aLast.op = "timer"
     /\ aLast.kind = "start"
     /\ prev.isPaused => prev.phase # "idle") =>
        aLast.pre \in Suspended \cup {"running"}

\* C30 as claimed: no persistence call fails for its caller, whatever the
\* storage does: a load whose open or request errors yields 0, and a save
\* or clear whose open or request errors resolves having done nothing.
C30_StorageNeverFails ==
    /\ ~pLast.rejected
    /\ (pLast.op = "load" /\ pLast.fault # "none") => pLast.value = 0

\* The call was a fresh start: start(), directly or through toggle(), of a
\* timer that was not paused.
freshStart ==
    \/ lastOp = "start" /\ ~prev.isPaused
    \/ lastOp = "toggle" /\ ~prev.isRunning /\ ~prev.isPaused

\* The last call was a tick that moved a running timer from phase a to b.
transition(a, b) ==
    /\ lastOp \in {"tick", "lateTick"}
    /\ prev.isRunning
    /\ prev.phase = a
    /\ state.phase = b

\* C31 as claimed: each phase transition requests the cue assigned to it
\* and no other: the start cue on a fresh start, on prep -> work and on
\* rest -> work, the end cue on work -> rest, the finish cue when the last
\* work phase completes.
C31_OneCuePerTransition ==
    /\ freshStart => lastCues = <<"start">>
    /\ transition("prep", "work") => lastCues = <<"start">>
    /\ transition("rest", "work") => lastCues = <<"start">>
    /\ transition("work", "rest") => lastCues = <<"end">>
    /\ transition("work", "done") => lastCues = <<"finish">>

\* The cue c is among the cues the last call requested.
requested(c) == \E i \in 1..Len(lastCues) : lastCues[i] = c

\* C32: a tick of a running timer requests the countdown cue exactly when
\* the decremented time remaining is 1, 2 or 3, and so not on the tick on
\* which the time remaining reaches 0.
C32_CountdownAtThreeTwoOne ==
    (lastOp \in {"tick", "lateTick"} /\ prev.isRunning) =>
        (requested("countdown") <=> prev.timeLeft - 1 \in 1..3)

C32_Witness ==
    /\ lastOp = "tick"
    /\ prev.isRunning
    /\ prev.phase = "work"
    /\ prev.timeLeft = 4
    /\ state.timeLeft = 3
    /\ lastCues = <<"countdown">>

\* C33 as claimed: whatever start(), pause(), toggle(), reset(), ticks and
\* profile replacements (durations >= 0, rounds >= 1) have happened, the
\* TimerState is within its declared ranges: timeLeft >= 0 and
\* 1 <= currentRound <= totalRounds.
C33_StateInRange ==
    /\ state.timeLeft >= 0
    /\ 1 <= state.currentRound
    /\ state.currentRound <= state.totalRounds

\* C34: a tick that ends a phase takes the next phase and its duration from
\* the profile current at that tick (work duration, rest duration, round
\* count), also when the profile was replaced after start(); the round
\* count stored at start() does not decide which round is the last.
C34_TickReadsCurrentProfile ==
    (/\ lastOp \in {"tick", "lateTick"}
     /\ prev.isRunning
     /\ prev.timeLeft - 1 <= 0) =>
        /\ prev.phase = "prep" =>
            (state.phase = "work" /\ state.timeLeft = profile.workTime)
        /\ (prev.phase = "work" /\ prev.currentRound >= profile.rounds) =>
            state.phase = "done"
        /\ (prev.phase = "work" /\ prev.currentRound < profile.rounds) =>
            (state.phase = "rest" /\ state.timeLeft = profile.restTime)
        /\ prev.phase = "rest" =>
            (/\ state.phase = "work"
             /\ state.timeLeft = profile.workTime
             /\ state.currentRound = prev.currentRound + 1)

\* The round count was raised after start(): the tick goes on to rest
\* although the round is the last by the count stored at start().
C34_Witness ==
    /\ lastOp = "tick"
    /\ prev.isRunning
    /\ prev.phase = "work"
    /\ prev.currentRound = prev.totalRounds
    /\ prev.currentRound < profile.rounds
    /\ state.phase = "rest"
    /\ state.timeLeft = profile.restTime

\* C35: replacing the profile while the timer is running or paused leaves
\* every field of TimerState as it was; while it is neither, the only field
\* that changes is totalRounds, which takes the new round count.
C35_ProfileChangeFrame ==
    lastOp = "setProfile" =>
        IF prev.isRunning \/ prev.isPaused
        THEN state = prev
        ELSE state = [prev EXCEPT !.totalRounds = profile.rounds]

C35_Witness ==
    /\ lastOp = "setProfile"
    /\ prev.isPaused
    /\ prev.phase = "work"
    /\ profile.rounds # prev.totalRounds
    /\ state = prev

\* C36: after a fresh start with a constant profile, if the schedule keeps
\* firing and pause() and reset() are not called, the timer eventually is
\* in phase done with isRunning false and its tick source cleared.
C36_RunReachesDone ==
    clean ~> (/\ state.phase = "done"
              /\ ~state.isRunning
              /\ intervalRef = NULL
              /\ intervals = {})

C36_Witness ==
    /\ clean
    /\ lastOp = "tick"
    /\ prev.isRunning
    /\ profile.rounds = 2
    /\ workDone = 2
    /\ restDone = 1
    /\ state.phase = "done"
    /\ ~state.isRunning
    /\ intervalRef = NULL
    /\ intervals = {}

\* Ticks of a whole run: prep + rounds x work + (rounds - 1) x rest.
runLength(p) ==
    p.prepTime + p.rounds * p.workTime + (p.rounds - 1) * p.restTime

\* C37: with a constant profile whose prep, work and rest durations are all
\* at least 1, an uninterrupted run from a fresh start reaches done after
\* exactly prep + rounds x work + (rounds - 1) x rest ticks, not before,
\* and totalElapsed is that number when done is reached.
C37_RunLength ==
    (/\ clean
     /\ profile.prepTime >= 1
     /\ profile.workTime >= 1
     /\ profile.restTime >= 1) =>
        /\ state.phase = "done" =>
            (/\ nTicks = runLength(profile)
             /\ state.totalElapsed = runLength(profile))
        /\ state.phase # "done" =>
            (/\ nTicks < runLength(profile)
             /\ state.totalElapsed = nTicks)

C37_Witness ==
    /\ clean
    /\ profile = AppProfile
    /\ lastOp = "tick"
    /\ prev.phase = "work"
    /\ state.phase = "done"
    /\ nTicks = 210
    /\ state.totalElapsed = 210

\* C38: when start() and pause() are reached through toggle() only, then
\* under any sequence of toggle(), reset(), ticks and profile changes a
\* running timer is in phase prep, work or rest.
C38_RunningHasPhase ==
    state.isRunning => state.phase \in {"prep", "work", "rest"}

C38_Witness ==
    /\ lastOp = "toggle"
    /\ prev.isPaused
    /\ prev.phase = "rest"
    /\ state.isRunning
    /\ state.phase = "rest"
    /\ state.totalRounds # profile.rounds

\* C39 as claimed: when a resume fails with the unrecoverable device error,
\* the callbacks of that resume close no device but the one the resume was
\* issued on, so never one created after it was issued, and no
\* ensureRunning() resumed by it returns a device that this recovery has
\* closed.
C39_RecoveryClosesOwnDevice ==
    (aLast.op = "settle" /\ includesDeviceFailure(aLast.outcome)) =>
        (~aLast.stray /\ ~aLast.retClosed)

\* C40: once a resume attempt has set the resume-in-progress guard, the
\* guard is eventually cleared, whether the resume resolves, rejects or
\* never settles (the timer of the attempt is then still armed), so later
\* playBeep() and gesture requests are not skipped forever.
C40_GuardCleared ==
    /\ [](resumeInProgress => \E i \in OpIds : ops[i].live /\ ops[i].timer)
    /\ resumeInProgress ~> ~resumeInProgress

\* The resume of a playBeep() never settled; its timer cleared the guard.
C40_Witness ==
    /\ aLast.op = "settle"
    /\ aLast.kind = "playBeep"
    /\ aLast.outcome = TimeoutError
    /\ ~resumeInProgress
    /\ context # NULL
    /\ context \in abandoned
    /\ \A i \in OpIds : ~ops[i].live

====
